---- MODULE Spec2Model ----
(***************************************************************************)
(* A model of ErrorLogger (src/logger.js): the configuration merge of      *)
(* init, the single 'error' listener on window, the enrichment of a raw    *)
(* error event, the console and remote sinks, the XMLHttpRequest           *)
(* completion handler and the duration formatter.                          *)
(*                                                                         *)
(* JavaScript objects are functions whose DOMAIN is the set of the         *)
(* object's own keys, so a missing key reads as undefined.  Strings are    *)
(* TLA+ strings, handled character by character where the code does.       *)
(***************************************************************************)
EXTENDS Integers, Sequences, FiniteSets, TLC

VARIABLES
  config,      \* this.config
  startTime,   \* this.startTime
  listeners,   \* the 'error' listeners registered on window, in order
  now,         \* the host clock, Date.now()
  xhrs,        \* the XMLHttpRequest objects created so far, in order
  events,      \* history: one entry per error event the window dispatched
  initCount,   \* history: number of init calls so far
  supplied,    \* history: per top-level key, the value the latest init
               \*          containing that key supplied (or the default)
  initAt,      \* history: the clock reading taken by the latest init
  fmt          \* a duration object returned by _parseVisitorTime, with the
               \* strings its toString has returned so far

vars == <<config, startTime, listeners, now, xhrs, events, initCount,
          supplied, initAt, fmt>>

--------------------------------------------------------------------------
(* Bounds of the model. *)

MaxTime == 1      \* the clock runs over 0..MaxTime
MaxCalls == 3     \* at most this many init calls and error events together
MaxToString == 2  \* at most this many toString calls on a duration object

--------------------------------------------------------------------------
(* JavaScript values. *)

Null == "<null>"
Undefined == "<undefined>"
NullTime == [null |-> TRUE]
Num(n) == [ms |-> n]

\* Number(v) for a stored time: null converts to 0.
ToNumber(v) == IF "ms" \in DOMAIN v THEN v.ms ELSE 0

\* obj[k], undefined when obj has no own key k.
Get(obj, k) == IF k \in DOMAIN obj THEN obj[k] ELSE Undefined

\* ToBoolean(obj[k]): a missing key is undefined; the flags are booleans,
\* the url is a string or null, a callback is a function (named) or null.
Truthy(obj, k) ==
  /\ k \in DOMAIN obj
  /\ IF k \in {"detailedErrors", "enable"} THEN obj[k]
     ELSE obj[k] \notin {Null, Undefined, ""}

Ch(s, i) == SubSeq(s, i, i)

RECURSIVE Join(_, _)
\* Array.prototype.join
Join(a, sep) ==
  IF Len(a) = 0 THEN ""
  ELSE IF Len(a) = 1 THEN a[1]
  ELSE a[1] \o sep \o Join(Tail(a), sep)

RECURSIVE Reverse(_)
\* Array.prototype.reverse
Reverse(a) == IF Len(a) = 0 THEN <<>> ELSE Append(Reverse(Tail(a)), Head(a))

--------------------------------------------------------------------------
(* Millisecond counts.  A JavaScript number holds an integer exactly up to *)
(* 2^53; the model's integers are 32 bits wide, which 25 days of           *)
(* milliseconds overflow.  A count is therefore carried as two limbs,      *)
(* hi * Base + lo with 0 <= lo < Base, and the three operations            *)
(* _parseVisitorTime applies to it are computed on the limbs.              *)

Base == 10 ^ 3
Big(hi, lo) == [hi |-> hi, lo |-> lo]
ToBig(n) == Big(n \div Base, n % Base)

\* x % m, for 0 < m <= Base
BigMod(x, m) == (((x.hi % m) * (Base % m)) + x.lo) % m

\* x - r, for 0 <= r < Base and r <= x
BigSub(x, r) == IF x.lo >= r THEN Big(x.hi, x.lo - r)
                ELSE Big(x.hi - 1, x.lo + Base - r)

\* x / m, for 0 < m <= Base and x a multiple of m
BigDiv(x, m) ==
  LET rest == ((x.hi % m) * Base + x.lo) \div m
  IN  Big((x.hi \div m) + (rest \div Base), rest % Base)

--------------------------------------------------------------------------
(* _parseVisitorTime: the duration object. *)

units == << [label |-> "ms", mod |-> 1000],
            [label |-> "seconds", mod |-> 60],
            [label |-> "minutes", mod |-> 60],
            [label |-> "hours", mod |-> 24],
            [label |-> "days", mod |-> 31] >>

Labels == {units[i].label : i \in 1..Len(units)}

RECURSIVE Cascade(_, _, _)
\* units.forEach(u => ms = (ms - (duration[u.label] = ms % u.mod)) / u.mod),
\* from unit i on; yields the duration object's unit values
Cascade(ms, i, duration) ==
  IF i > Len(units) THEN duration
  ELSE LET u == units[i]
           r == BigMod(ms, u.mod)
       IN  Cascade(BigDiv(BigSub(ms, r), u.mod), i + 1,
                   [duration EXCEPT ![u.label] = r])

\* The object _parseVisitorTime(ms) returns: the unit values, and the
\* units array its toString closes over (toString reverses it in place).
ParseVisitorTime(ms) ==
  [duration |-> Cascade(ms, 1, [l \in Labels |-> 0]), units |-> units]

\* label.slice(0, -1)
SliceLast(label) == SubSeq(label, 1, Len(label) - 1)

\* mutant: the label never made singular
RenderUnitAlwaysPlural(duration, u) ==
  ToString(duration[u.label]) \o " " \o u.label

\* duration[u.label] + ' ' + (duration[u.label] == 1 ? singular : label)
RenderUnit(duration, u) ==
  ToString(duration[u.label]) \o " " \o
    (IF duration[u.label] = 1 THEN SliceLast(u.label) ELSE u.label)

RECURSIVE MapRender(_, _)
MapRender(duration, us) ==
  IF Len(us) = 0 THEN <<>>
  ELSE <<RenderUnit(duration, Head(us))>> \o MapRender(duration, Tail(us))

\* mutant: the units not reversed, rendered smallest first
DurationToStringNoReverse(d) ==
  LET nonZero(u) == d.duration[u.label] # 0
  IN  [obj |-> d,
       str |-> Join(MapRender(d.duration, SelectSeq(d.units, nonZero)), ", ")]

\* One call of duration.toString(): units.reverse() reverses the array in
\* place and the rendering runs over the reversed array.  Yields the object
\* after the call and the string returned.
DurationToString(d) ==
  LET reversed == Reverse(d.units)
      nonZero(u) == d.duration[u.label] # 0
  IN  [obj |-> [d EXCEPT !.units = reversed],
       str |-> Join(MapRender(d.duration, SelectSeq(reversed, nonZero)), ", ")]

\* 'Visitor time on page: ' + self._parseVisitorTime(ms): string
\* concatenation converts the fresh object with one toString call.
VisitorTimeText(ms) == DurationToString(ParseVisitorTime(ms)).str

--------------------------------------------------------------------------
(* String.prototype.split and JSON.stringify, for strings and arrays of     *)
(* strings.  A JavaScript value that may be a string or an array           *)
(* is tagged: [t |-> "string", v |-> s] or [t |-> "array", v |-> <<...>>]. *)

Str(s) == [t |-> "string", v |-> s]
Arr(a) == [t |-> "array", v |-> a]

RECURSIVE SplitFrom(_, _, _)
\* the pieces of s from position i on, cur being the piece under way
SplitFrom(s, i, cur) ==
  IF i > Len(s) THEN <<cur>>
  ELSE IF Ch(s, i) = "\n" THEN <<cur>> \o SplitFrom(s, i + 1, "")
  ELSE SplitFrom(s, i + 1, cur \o Ch(s, i))

\* s.split('\n')
Split(s) == SplitFrom(s, 1, "")

\* the JSON escape of one character
Escape(c) == IF c = "\"" THEN "\\\""
             ELSE IF c = "\\" THEN "\\\\"
             ELSE IF c = "\n" THEN "\\n"
             ELSE c

RECURSIVE EscapeFrom(_, _)
EscapeFrom(s, i) ==
  IF i > Len(s) THEN "" ELSE Escape(Ch(s, i)) \o EscapeFrom(s, i + 1)

\* JSON.stringify of a string
Quote(s) == "\"" \o EscapeFrom(s, 1) \o "\""

RECURSIVE MapQuote(_)
MapQuote(a) == IF Len(a) = 0 THEN <<>> ELSE <<Quote(Head(a))>> \o MapQuote(Tail(a))

\* JSON.stringify(value), for a tagged string or array of strings
JSONStringify(x) ==
  IF x.t = "string" THEN Quote(x.v)
  ELSE "[" \o Join(MapQuote(x.v), ",") \o "]"

--------------------------------------------------------------------------
(* The configuration and init. *)

\* this.config as the constructor leaves it
DefaultConfig ==
  [detailedErrors |-> TRUE,
   remoteLogging |-> [enable |-> FALSE,
                      url |-> Null,
                      successCallback |-> "defaultSuccess",
                      errorCallback |-> "defaultError"]]

\* Object.assign(target, source): every own key of source is copied onto
\* target, whole value by whole value
ObjectAssign(target, source) ==
  [k \in DOMAIN target \cup DOMAIN source |->
     IF k \in DOMAIN source THEN source[k] ELSE target[k]]

\* The argument of init: no argument, or an options object.
NoOptions == [kind |-> "undefined"]
Options(obj) == [kind |-> "object", obj |-> obj]

\* options && typeof options === 'object'
IsObject(options) == options.kind = "object"

\* mutant: a deep merge, remoteLogging merged key by key
MergeConfigDeep(cfg, options) ==
  IF IsObject(options)
  THEN [k \in DOMAIN cfg \cup DOMAIN options.obj |->
          IF k \notin DOMAIN options.obj THEN cfg[k]
          ELSE IF k = "remoteLogging" /\ k \in DOMAIN cfg
          THEN ObjectAssign(cfg[k], options.obj[k])
          ELSE options.obj[k]]
  ELSE cfg

\* this.config after the merge step of init(options)
MergeConfig(cfg, options) ==
  IF IsObject(options) THEN ObjectAssign(cfg, options.obj) ELSE cfg

\* window.removeEventListener('error', h): drops h from the list
RemoveEventListener(ls, h) == SelectSeq(ls, LAMBDA x : x # h)

\* window.addEventListener('error', h): appends h unless the same listener
\* is already registered
AddEventListener(ls, h) ==
  IF \E i \in 1..Len(ls) : ls[i] = h THEN ls ELSE Append(ls, h)

\* the listeners of window after init: remove, then add
InstallListener(ls) ==
  AddEventListener(RemoveEventListener(ls, "_errorListener"), "_errorListener")

\* The option objects the model passes to init.
OptionSet ==
  { NoOptions,
    Options([detailedErrors |-> FALSE]),
    Options([remoteLogging |-> [enable |-> TRUE]]),
    Options([remoteLogging |-> [enable |-> TRUE, url |-> "/log"]]),
    Options([remoteLogging |-> [enable |-> TRUE, url |-> "/log",
                                successCallback |-> "onSuccess",
                                errorCallback |-> "onError"]]),
    Options([detailedErrors |-> TRUE,
             remoteLogging |-> [enable |-> TRUE, url |-> "/log",
                                errorCallback |-> "onError"]]) }

--------------------------------------------------------------------------
(* Enrichment of a raw error event. *)

\* The raw events: the fields the platform always sets, and e.error, which
\* is missing (null), an Error carrying a stack, or a thrown value that
\* carries none.
RawEvent == [type |-> "error", message |-> "boom", filename |-> "app.js",
             lineno |-> 7, colno |-> 3]
WithError(err) == [k \in DOMAIN RawEvent \cup {"error"} |->
                     IF k = "error" THEN err ELSE RawEvent[k]]
Stacks == {"l1\nl\"2\"\nl3"}
RawEvents == {RawEvent, WithError([name |-> "thrown"])}
               \cup {WithError([stack |-> st]) : st \in Stacks}

\* the document and window sizes _getViewport reads
Screen == [clientWidth |-> 800, innerWidth |-> 1024,
           clientHeight |-> 600, innerHeight |-> 0]
Max(a, b) == IF a >= b THEN a ELSE b

\* _getViewport
GetViewport ==
  ToString(Max(Screen.clientWidth, Screen.innerWidth)) \o "x" \o
  ToString(Max(Screen.clientHeight, Screen.innerHeight))

\* mutant: the operands of the subtraction swapped
GetTimeOnPageSwapped(t, start) == ToNumber(start) - t

\* _getTimeOnPage, at clock reading t
GetTimeOnPage(t, start) == t - ToNumber(start)

\* _parseError, at clock reading t: the record, or the TypeError that
\* e.error.stack.toString() raises when e.error carries no stack
ParseError(e, t, start) ==
  IF "error" \in DOMAIN e /\ "stack" \notin DOMAIN e.error
  THEN [thrown |-> "TypeError"]
  ELSE [thrown |-> "none",
        rec |-> [type |-> e.type,
                 message |-> e.message,
                 path |-> e.filename,
                 line |-> e.lineno,
                 column |-> e.colno,
                 stackTrace |-> Str(IF "error" \in DOMAIN e THEN e.error.stack ELSE ""),
                 viewport |-> GetViewport,
                 timeSpend |-> GetTimeOnPage(t, start),
                 datetime |-> ToString(t)]]

--------------------------------------------------------------------------
(* The sinks. *)

\* _showError: the lines written to the console
ShowError(e) ==
  [type |-> e.type, message |-> e.message, stackTrace |-> e.stackTrace,
   path |-> e.path, line |-> e.line, column |-> e.column,
   debug |-> e.path \o ":" \o ToString(e.line),
   viewport |-> e.viewport,
   visitorTime |-> VisitorTimeText(ToBig(e.timeSpend)),
   datetime |-> e.datetime]

\* mutant: the stack stringified without being split into lines
StringifyStackNoSplit(st) == Str(JSONStringify(st))

\* e.stackTrace = JSON.stringify(e.stackTrace.split('\n'))
StringifyStack(st) == Str(JSONStringify(Arr(Split(st.v))))

\* JSON.stringify(e): the JSON text of each member of the object written
PayloadOf(e) ==
  [k \in DOMAIN e |->
     IF k = "stackTrace" THEN JSONStringify(e[k])
     ELSE IF k \in {"line", "column", "timeSpend"} THEN ToString(e[k])
     ELSE Quote(e[k])]

ConfigError == "Error: Provide remote URL to log errors."

\* mutant: the url guard left out, the request goes to whatever url holds
RemoteLoggingNoUrlCheck(cfg, e) ==
  LET e2 == [e EXCEPT !.stackTrace = StringifyStack(e.stackTrace)]
  IN  [thrown |-> "none", rec |-> e2,
       sent |-> << [method |-> "POST",
                    url |-> Get(cfg.remoteLogging, "url"),
                    async |-> TRUE,
                    contentType |-> "application/json;charset=UTF-8",
                    body |-> PayloadOf(e2),
                    readyState |-> 1,
                    status |-> 0,
                    called |-> <<>>] >>]

\* _remoteLogging up to xhr.send: the exception raised, or the request
\* opened and sent, with the record as the call leaves it
RemoteLogging(cfg, e) ==
  IF ~Truthy(cfg.remoteLogging, "url")
  THEN [thrown |-> ConfigError, rec |-> e, sent |-> <<>>]
  ELSE LET e2 == [e EXCEPT !.stackTrace = StringifyStack(e.stackTrace)]
       IN  [thrown |-> "none", rec |-> e2,
            sent |-> << [method |-> "POST",
                         url |-> cfg.remoteLogging.url,
                         async |-> TRUE,
                         contentType |-> "application/json;charset=UTF-8",
                         body |-> PayloadOf(e2),
                         readyState |-> 1,
                         status |-> 0,
                         called |-> <<>>] >>]

\* mutant: the 'else' before the error branch left out
OnReadyStateChangeNoElse(x, cfg) ==
  IF x.readyState = 4
  THEN (IF x.status = 200 /\ Truthy(cfg.remoteLogging, "successCallback")
        THEN <<cfg.remoteLogging.successCallback>> ELSE <<>>)
       \o (IF Truthy(cfg.remoteLogging, "errorCallback")
           THEN <<cfg.remoteLogging.errorCallback>> ELSE <<>>)
  ELSE <<>>

\* mutant: the readyState === 4 test left out
OnReadyStateChangeAnyState(x, cfg) ==
  IF x.status = 200 /\ Truthy(cfg.remoteLogging, "successCallback")
  THEN <<cfg.remoteLogging.successCallback>>
  ELSE IF Truthy(cfg.remoteLogging, "errorCallback")
  THEN <<cfg.remoteLogging.errorCallback>>
  ELSE <<>>

\* mutant: every status from 200 to 299 taken as success
OnReadyStateChange2xx(x, cfg) ==
  IF x.readyState = 4
  THEN IF x.status \in 200..299 /\ Truthy(cfg.remoteLogging, "successCallback")
       THEN <<cfg.remoteLogging.successCallback>>
       ELSE IF Truthy(cfg.remoteLogging, "errorCallback")
       THEN <<cfg.remoteLogging.errorCallback>>
       ELSE <<>>
  ELSE <<>>

\* xhr.onreadystatechange: the callbacks of the current configuration the
\* handler calls, given the request's state
OnReadyStateChange(x, cfg) ==
  IF x.readyState = 4
  THEN IF x.status = 200 /\ Truthy(cfg.remoteLogging, "successCallback")
       THEN <<cfg.remoteLogging.successCallback>>
       ELSE IF Truthy(cfg.remoteLogging, "errorCallback")
       THEN <<cfg.remoteLogging.errorCallback>>
       ELSE <<>>
  ELSE <<>>

\* mutant: the remote sink called before the console sink
ErrorListenerRemoteFirst(cfg, start, t, e) ==
  LET p == ParseError(e, t, start)
  IN  IF p.thrown # "none"
      THEN [thrown |-> p.thrown, parsed |-> FALSE, console |-> <<>>,
            remoteCalled |-> FALSE, sent |-> <<>>]
      ELSE LET remote == IF Truthy(cfg.remoteLogging, "enable")
                         THEN RemoteLogging(cfg, p.rec)
                         ELSE [thrown |-> "none", rec |-> p.rec, sent |-> <<>>]
               console == IF Truthy(cfg, "detailedErrors") /\ remote.thrown = "none"
                          THEN <<ShowError(remote.rec)>> ELSE <<>>
           IN  [thrown |-> remote.thrown, parsed |-> TRUE, rec |-> remote.rec,
                console |-> console,
                remoteCalled |-> Truthy(cfg.remoteLogging, "enable"),
                sent |-> remote.sent]

\* _errorListener, at clock reading t: what one call of the handler does
ErrorListener(cfg, start, t, e) ==
  LET p == ParseError(e, t, start)
  IN  IF p.thrown # "none"
      THEN [thrown |-> p.thrown, parsed |-> FALSE, console |-> <<>>,
            remoteCalled |-> FALSE, sent |-> <<>>]
      ELSE LET console == IF Truthy(cfg, "detailedErrors")
                          THEN <<ShowError(p.rec)>> ELSE <<>>
               remote == IF Truthy(cfg.remoteLogging, "enable")
                         THEN RemoteLogging(cfg, p.rec)
                         ELSE [thrown |-> "none", rec |-> p.rec, sent |-> <<>>]
           IN  [thrown |-> remote.thrown, parsed |-> TRUE, rec |-> remote.rec,
                console |-> console,
                remoteCalled |-> Truthy(cfg.remoteLogging, "enable"),
                sent |-> remote.sent]

--------------------------------------------------------------------------
(* The state machine of one logger in one window. *)

NoDuration == [ms |-> Big(0, 0), obj |-> <<>>, out |-> <<>>]

Init ==
  /\ config = DefaultConfig
  /\ startTime = NullTime
  /\ listeners = <<>>
  /\ now = 0
  /\ xhrs = <<>>
  /\ events = <<>>
  /\ initCount = 0
  /\ supplied = DefaultConfig
  /\ initAt = 0
  /\ fmt = NoDuration

\* logger.init(options)
init(options) ==
  /\ initCount + Len(events) < MaxCalls
  /\ config' = MergeConfig(config, options)
  /\ startTime' = Num(now)
  /\ listeners' = InstallListener(listeners)
  /\ initCount' = initCount + 1
  /\ supplied' = [k \in DOMAIN supplied |->
                    IF IsObject(options) /\ k \in DOMAIN options.obj
                    THEN options.obj[k] ELSE supplied[k]]
  /\ initAt' = now
  /\ UNCHANGED <<now, xhrs, events, fmt>>

\* the host clock advances
Tick ==
  /\ now < MaxTime
  /\ now' = now + 1
  /\ UNCHANGED <<config, startTime, listeners, xhrs, events, initCount,
                 supplied, initAt, fmt>>

\* a request as xhrs holds it: the XMLHttpRequest, the event it reports and
\* the remoteLogging object in force when it completed
Tracked(x, n) ==
  [k \in DOMAIN x \cup {"event", "doneCfg"} |->
     IF k = "event" THEN n ELSE IF k = "doneCfg" THEN <<>> ELSE x[k]]

RECURSIVE Requests(_, _)
\* the requests the handler calls of event n sent, in order
Requests(calls, n) ==
  IF Len(calls) = 0 THEN <<>>
  ELSE (IF Len(Head(calls).sent) = 0 THEN <<>>
        ELSE <<Tracked(Head(calls).sent[1], n)>>) \o Requests(Tail(calls), n)

\* mutant: the handler restarts the session clock
ErrorEventResetsClock(e) ==
  /\ initCount + Len(events) < MaxCalls
  /\ LET calls == [i \in 1..Len(listeners) |->
                     ErrorListener(config, startTime, now, e)]
     IN  /\ events' = Append(events,
                             [e |-> e, at |-> now, epoch |-> initCount,
                              epochStart |-> initAt, config |-> config,
                              calls |-> calls])
         /\ xhrs' = xhrs \o Requests(calls, Len(events) + 1)
  /\ startTime' = Num(now)
  /\ UNCHANGED <<config, listeners, now, initCount, supplied, initAt, fmt>>

\* window raises an uncaught error: every registered listener is called
\* with the event, one after the other
ErrorEvent(e) ==
  /\ initCount + Len(events) < MaxCalls
  /\ LET calls == [i \in 1..Len(listeners) |->
                     ErrorListener(config, startTime, now, e)]
     IN  /\ events' = Append(events,
                             [e |-> e, at |-> now, epoch |-> initCount,
                              epochStart |-> initAt, config |-> config,
                              calls |-> calls])
         /\ xhrs' = xhrs \o Requests(calls, Len(events) + 1)
  /\ UNCHANGED <<config, startTime, listeners, now, initCount, supplied,
                 initAt, fmt>>

\* mutant: the handler calls the callbacks configured when the request was
\* issued
ReadyStateChangeIssueTime(i, rs, st) ==
  /\ xhrs' = [xhrs EXCEPT ![i] =
                LET x == [@ EXCEPT !.readyState = rs, !.status = st]
                IN  [x EXCEPT !.called =
                                @ \o OnReadyStateChange(x, events[x.event].config),
                              !.doneCfg = IF rs = 4 THEN <<config.remoteLogging>>
                                          ELSE @]]
  /\ UNCHANGED <<config, startTime, listeners, now, events, initCount,
                 supplied, initAt, fmt>>

\* request i moves to readyState rs with status st, and its
\* onreadystatechange handler runs
ReadyStateChange(i, rs, st) ==
  /\ xhrs' = [xhrs EXCEPT ![i] =
                LET x == [@ EXCEPT !.readyState = rs, !.status = st]
                IN  [x EXCEPT !.called = @ \o OnReadyStateChange(x, config),
                              !.doneCfg = IF rs = 4 THEN <<config.remoteLogging>>
                                          ELSE @]]
  /\ UNCHANGED <<config, startTime, listeners, now, events, initCount,
                 supplied, initAt, fmt>>

Statuses == {200, 201, 404}

\* the response headers of request i arrive, with status st
HeadersReceived(i, st) ==
  /\ xhrs[i].readyState = 1
  /\ ReadyStateChange(i, 2, st)

\* request i completes
Done(i) ==
  /\ xhrs[i].readyState = 2
  /\ ReadyStateChange(i, 4, xhrs[i].status)

\* request i fails in the network: it completes with status 0
NetworkError(i) ==
  /\ xhrs[i].readyState \in {1, 2}
  /\ ReadyStateChange(i, 4, 0)

Next ==
  \/ \E options \in OptionSet : init(options)
  \/ Tick
  \/ \E e \in RawEvents : ErrorEvent(e)
  \/ \E i \in 1..Len(xhrs), st \in Statuses : HeadersReceived(i, st)
  \/ \E i \in 1..Len(xhrs) : Done(i)
  \/ \E i \in 1..Len(xhrs) : NetworkError(i)

Spec == Init /\ [][Next]_vars

--------------------------------------------------------------------------
(* The duration formatter on its own: _parseVisitorTime applied to a       *)
(* millisecond count, and toString called on the object it returned.       *)

\* days, hours, minutes, seconds and milliseconds as one count
FromParts(d, h, m, sec, ms) == Big(((d * 24 + h) * 60 + m) * 60 + sec, ms)

FmtInputs ==
  { FromParts(d, h, m, sec, ms) :
      d \in {0, 1, 2, 31, 40}, h \in {0, 1, 23}, m \in {0, 1, 59},
      sec \in {0, 1, 2}, ms \in {0, 1, 500, 999} }

InitFmt ==
  /\ config = DefaultConfig
  /\ startTime = NullTime
  /\ listeners = <<>>
  /\ now = 0
  /\ xhrs = <<>>
  /\ events = <<>>
  /\ initCount = 0
  /\ supplied = DefaultConfig
  /\ initAt = 0
  /\ \E ms \in FmtInputs : fmt = [ms |-> ms, obj |-> <<>>, out |-> <<>>]

\* duration = logger._parseVisitorTime(ms)
parseVisitorTime ==
  /\ fmt.obj = <<>>
  /\ fmt' = [fmt EXCEPT !.obj = <<ParseVisitorTime(fmt.ms)>>]
  /\ UNCHANGED <<config, startTime, listeners, now, xhrs, events, initCount,
                 supplied, initAt>>

\* duration.toString()
toString ==
  /\ fmt.obj # <<>>
  /\ Len(fmt.out) < MaxToString
  /\ LET r == DurationToString(fmt.obj[1])
     IN  fmt' = [fmt EXCEPT !.obj = <<r.obj>>, !.out = Append(@, r.str)]
  /\ UNCHANGED <<config, startTime, listeners, now, xhrs, events, initCount,
                 supplied, initAt>>

NextFmt == parseVisitorTime \/ toString

SpecFmt == InitFmt /\ [][NextFmt]_vars

--------------------------------------------------------------------------
(* The handler called directly: _errorListener is a public property of the *)
(* logger, so a page script can call it whether or not init has run.       *)

\* logger._errorListener(e), called by a script
DirectCall(e) ==
  /\ initCount + Len(events) < MaxCalls
  /\ LET calls == <<ErrorListener(config, startTime, now, e)>>
     IN  /\ events' = Append(events,
                             [e |-> e, at |-> now, epoch |-> initCount,
                              epochStart |-> initAt, config |-> config,
                              calls |-> calls])
         /\ xhrs' = xhrs \o Requests(calls, Len(events) + 1)
  /\ UNCHANGED <<config, startTime, listeners, now, initCount, supplied,
                 initAt, fmt>>

NextDirect ==
  \/ \E options \in OptionSet : init(options)
  \/ Tick
  \/ \E e \in RawEvents : DirectCall(e)

SpecDirect == Init /\ [][NextDirect]_vars

--------------------------------------------------------------------------
(* Vocabulary of the properties. *)

\* the handler calls of event n, and whether the logger was listening
Calls(n) == events[n].calls
Listening(n) == events[n].epoch >= 1

\* the configuration in force when event n was handled
DetailedErrorsAt(n) == Truthy(events[n].config, "detailedErrors")
EnableAt(n) == Truthy(events[n].config.remoteLogging, "enable")
UrlAt(n) == Truthy(events[n].config.remoteLogging, "url")

\* console reports written and POST requests sent for event n
ConsoleReports(n) ==
  Cardinality({c \in DOMAIN Calls(n) : Calls(n)[c].console # <<>>})
RemoteReports(n) ==
  Cardinality({i \in DOMAIN xhrs : xhrs[i].event = n})

\* the stack the raw event n carried
RawStack(n) ==
  IF "error" \in DOMAIN events[n].e /\ "stack" \in DOMAIN events[n].e.error
  THEN events[n].e.error.stack ELSE ""

\* completed requests, and the remoteLogging object at their completion
Completed == {i \in DOMAIN xhrs : xhrs[i].readyState = 4}
DoneCfg(i) == xhrs[i].doneCfg[1]
SuccessCallbacks == {"defaultSuccess", "onSuccess"}
ErrorCallbacks == {"defaultError", "onError"}
Invocations(i, names) ==
  Cardinality({j \in DOMAIN xhrs[i].called : xhrs[i].called[j] \in names})

RECURSIVE ParseString(_, _, _)
\* text[i] follows an opening quote: the string read up to the closing
\* quote and the position after it
ParseString(text, i, acc) ==
  IF Ch(text, i) = "\"" THEN [v |-> acc, next |-> i + 1]
  ELSE IF Ch(text, i) = "\\"
    THEN ParseString(text, i + 2,
                     acc \o (IF Ch(text, i + 1) = "n" THEN "\n" ELSE Ch(text, i + 1)))
  ELSE ParseString(text, i + 1, acc \o Ch(text, i))

RECURSIVE ParseElements(_, _, _)
\* text[i] follows "[" or ",": the elements read up to "]"
ParseElements(text, i, acc) ==
  IF Ch(text, i) = "]" THEN acc
  ELSE IF Ch(text, i) = "," THEN ParseElements(text, i + 1, acc)
  ELSE LET e == ParseString(text, i + 1, "")
       IN  ParseElements(text, e.next, Append(acc, e.v))

\* the value a receiver reads from a JSON text: JSON.parse, for the texts
\* JSONStringify writes
JSONParse(text) ==
  IF Ch(text, 1) = "[" THEN Arr(ParseElements(text, 2, <<>>))
  ELSE Str(ParseString(text, 2, "").v)

NoNewline(s) == \A k \in 1..Len(s) : Ch(s, k) # "\n"

--------------------------------------------------------------------------
(* C1 *)

\* C1 (as claimed): once init has been called, exactly one instance of the
\* handler is registered, and every error event the logger hears yields
\* exactly one console report when detailedErrors is true and exactly one
\* remote report when remoteLogging.enable is true.
C1_ExactlyOneReportPerSink ==
  /\ initCount >= 1 =>
       Len(SelectSeq(listeners, LAMBDA h : h = "_errorListener")) = 1
  /\ \A n \in DOMAIN events :
       Listening(n) =>
         /\ Len(Calls(n)) = 1
         /\ DetailedErrorsAt(n) => ConsoleReports(n) = 1
         /\ EnableAt(n) => RemoteReports(n) = 1

--------------------------------------------------------------------------
(* C2 *)

\* C2: whenever a record is dispatched while remoteLogging.enable is true
\* and no url is configured, the handler call raises the configuration
\* error, and no request is opened or sent for that event.
C2_NoUrlRaisesBeforeRequest ==
  \A n \in DOMAIN events :
    \A c \in DOMAIN Calls(n) :
      (Calls(n)[c].parsed /\ EnableAt(n) /\ ~UrlAt(n)) =>
        /\ Calls(n)[c].thrown = ConfigError
        /\ Calls(n)[c].sent = <<>>
        /\ RemoteReports(n) = 0

C2_Witness ==
  \E n \in DOMAIN events :
    /\ Len(Calls(n)) = 1
    /\ Calls(n)[1].parsed /\ EnableAt(n) /\ ~UrlAt(n)
    /\ Calls(n)[1].thrown = ConfigError

--------------------------------------------------------------------------
(* C3 *)

\* C3 (as claimed): every request that completes with status 200 has
\* successCallback invoked exactly once and errorCallback never, whatever
\* the configuration at completion time.
C3_Status200AlwaysSuccess ==
  \A i \in Completed :
    xhrs[i].status = 200 =>
      /\ Invocations(i, SuccessCallbacks) = 1
      /\ Invocations(i, ErrorCallbacks) = 0

\* C3 (amended): every request that completes with status 200 while the
\* configuration at completion time holds a successCallback has exactly
\* that callback invoked, once, and no errorCallback.
C3_Status200SuccessIfConfigured ==
  \A i \in Completed :
    (xhrs[i].status = 200 /\ Truthy(DoneCfg(i), "successCallback")) =>
      /\ xhrs[i].called = <<DoneCfg(i).successCallback>>
      /\ Invocations(i, SuccessCallbacks) = 1
      /\ Invocations(i, ErrorCallbacks) = 0

C3_Witness ==
  \E i \in Completed :
    /\ xhrs[i].status = 200
    /\ Truthy(DoneCfg(i), "successCallback")
    /\ xhrs[i].called = <<"onSuccess">>

--------------------------------------------------------------------------
(* C4 *)

\* C4 (as claimed): every request that completes with a status other than
\* 200 has errorCallback invoked exactly once and successCallback never.
C4_FailureAlwaysErrorCallback ==
  \A i \in Completed :
    xhrs[i].status # 200 =>
      /\ Invocations(i, ErrorCallbacks) = 1
      /\ Invocations(i, SuccessCallbacks) = 0

\* C4 (amended): every request that completes with a status other than 200
\* never has successCallback invoked; it has errorCallback invoked exactly
\* once when the configuration at completion time holds one, and no
\* callback at all when it holds none.
C4_FailureErrorCallbackIfConfigured ==
  \A i \in Completed :
    xhrs[i].status # 200 =>
      /\ Invocations(i, SuccessCallbacks) = 0
      /\ IF Truthy(DoneCfg(i), "errorCallback")
         THEN xhrs[i].called = <<DoneCfg(i).errorCallback>>
         ELSE xhrs[i].called = <<>>

C4_Witness ==
  \E i, j \in Completed :
    /\ xhrs[i].status = 404 /\ xhrs[i].called = <<"onError">>
    /\ xhrs[j].status = 0 /\ xhrs[j].called = <<"onError">>

--------------------------------------------------------------------------
(* C5 *)

--------------------------------------------------------------------------
(* C6 *)

\* C6: after any sequence of init calls each top-level configuration key
\* holds the value supplied by the latest init call that contained the key,
\* or its default; the remoteLogging object is the supplied object itself,
\* with exactly the keys that call gave it.
C6_ShallowMerge ==
  /\ DOMAIN config = {"detailedErrors", "remoteLogging"}
  /\ config.detailedErrors = supplied.detailedErrors
  /\ DOMAIN config.remoteLogging = DOMAIN supplied.remoteLogging
  /\ \A k \in DOMAIN config.remoteLogging :
       config.remoteLogging[k] = supplied.remoteLogging[k]

\* a request was sent to a configured url, and a later init then gave only
\* {enable: true}: url and callbacks are gone
C6_Witness ==
  /\ initCount >= 2
  /\ Len(xhrs) >= 1
  /\ DOMAIN config.remoteLogging = {"enable"}

--------------------------------------------------------------------------
(* C7 *)

\* C7 (as claimed): for every error event the logger hears, the console
\* sink is invoked exactly when detailedErrors is true and the remote sink
\* exactly when remoteLogging.enable is true, in the configuration in force
\* when the event is handled.
C7_SinksGatedByFlags ==
  \A n \in DOMAIN events :
    Listening(n) =>
      \A c \in DOMAIN Calls(n) :
        /\ (Calls(n)[c].console # <<>>) <=> DetailedErrorsAt(n)
        /\ Calls(n)[c].remoteCalled <=> EnableAt(n)

--------------------------------------------------------------------------
(* C8 *)

--------------------------------------------------------------------------
(* C9, under SpecFmt *)

\* the units from the largest to the smallest
Descending == <<units[5], units[4], units[3], units[2], units[1]>>

\* the non-zero unit values of a duration object, largest unit first, each
\* with its label, joined with ", "
ListedLargestFirst(duration) ==
  Join(MapRender(duration,
                 SelectSeq(Descending, LAMBDA u : duration[u.label] # 0)),
       ", ")

\* a fresh duration object rendered once, as the console sink renders it
RenderedOnce == Len(fmt.out) = 1

\* C9 (as claimed): the rendering lists the non-zero units from days down
\* to ms, joined with ", "; 0 renders "", 1500 renders "1 second" and 61000
\* renders "1 minute, 1 second".
C9_RenderingAsClaimed ==
  RenderedOnce =>
    /\ fmt.out[1] = ListedLargestFirst(fmt.obj[1].duration)
    /\ fmt.ms = Big(0, 0) => fmt.out[1] = ""
    /\ fmt.ms = Big(1, 500) => fmt.out[1] = "1 second"
    /\ fmt.ms = Big(61, 0) => fmt.out[1] = "1 minute, 1 second"

\* C9 (amended): the rendering lists the non-zero units from days down to
\* ms, joined with ", "; 0 renders "", 1500 renders "1 second, 500 ms" and
\* 61000 renders "1 minute, 1 second".
C9_Rendering ==
  RenderedOnce =>
    /\ fmt.out[1] = ListedLargestFirst(fmt.obj[1].duration)
    /\ fmt.ms = Big(0, 0) => fmt.out[1] = ""
    /\ fmt.ms = Big(1, 500) => fmt.out[1] = "1 second, 500 ms"
    /\ fmt.ms = Big(61, 0) => fmt.out[1] = "1 minute, 1 second"

C9_Witness ==
  /\ RenderedOnce
  /\ fmt.ms = Big(61, 0)
  /\ fmt.out[1] = "1 minute, 1 second"

--------------------------------------------------------------------------
(* C10 *)

\* the record event n was enriched into, when the handler built one
Enriched(n) == Listening(n) /\ Len(Calls(n)) = 1 /\ Calls(n)[1].parsed
TimeSpend(n) == Calls(n)[1].rec.timeSpend

\* C10: the clock never runs backwards in this model.  Each record's
\* timeSpend is its capture time minus the clock reading the latest init
\* stored, and of two records captured after the same init the later one's
\* timeSpend is at least the earlier one's.
C10_TimeSpendMonotonic ==
  /\ \A n \in DOMAIN events :
       Enriched(n) => TimeSpend(n) = events[n].at - events[n].epochStart
  /\ \A m, n \in DOMAIN events :
       (m < n /\ Enriched(m) /\ Enriched(n)
          /\ events[m].epoch = events[n].epoch) =>
         TimeSpend(n) >= TimeSpend(m)

C10_Witness ==
  \E m, n \in DOMAIN events :
    /\ m < n /\ Enriched(m) /\ Enriched(n)
    /\ events[m].epoch = events[n].epoch
    /\ events[m].at < events[n].at
    /\ TimeSpend(n) > TimeSpend(m)

--------------------------------------------------------------------------
(* C11, under SpecDirect *)

\* C11 (as claimed): when an error is enriched while no init call has
\* occurred (startTime still unset), the call fails with the configuration
\* error and returns no record with a computed timeSpend.
C11_EnrichBeforeInitFailsFast ==
  \A n \in DOMAIN events :
    events[n].epoch = 0 =>
      \A c \in DOMAIN Calls(n) :
        /\ ~Calls(n)[c].parsed
        /\ Calls(n)[c].thrown = ConfigError

--------------------------------------------------------------------------
(* C12 *)

\* the raw event n carries no stack: e.error is missing, or carries none
NoStack(n) ==
  \/ "error" \notin DOMAIN events[n].e
  \/ "stack" \notin DOMAIN events[n].e.error

\* C12 (as claimed): for every raw event without a stack (no nested error
\* object, or one carrying no stack) the enricher raises nothing and
\* returns a record whose stackTrace is empty, and the sinks run: the
\* console report, when written, shows the empty stack.
C12_EnricherNeverRaises ==
  \A n \in DOMAIN events :
    (Listening(n) /\ NoStack(n)) =>
      \A c \in DOMAIN Calls(n) :
        /\ Calls(n)[c].thrown # "TypeError"
        /\ Calls(n)[c].parsed
        /\ DetailedErrorsAt(n) =>
             /\ Len(Calls(n)[c].console) = 1
             /\ Calls(n)[c].console[1].stackTrace = Str("")

--------------------------------------------------------------------------
(* C13 *)

\* events the logger heard with enable true and a url configured
RemoteEvents == {n \in DOMAIN events : Listening(n) /\ EnableAt(n) /\ UrlAt(n)}

\* C13 (as claimed): the number of POST requests issued equals the number
\* of error events handled with remoteLogging.enable true and a url
\* configured; each such event issues exactly one request, whatever the
\* outcome of earlier requests.
C13_OneRequestPerRemoteEvent ==
  /\ Len(xhrs) = Cardinality(RemoteEvents)
  /\ \A n \in RemoteEvents : RemoteReports(n) = 1

--------------------------------------------------------------------------
(* C14, under SpecFmt *)

\* the unit values of the duration object under test
Parsed == fmt.obj # <<>>
Value(label) == fmt.obj[1].duration[label]

\* ms + 1000 * (seconds + 60 * (minutes + 60 * (hours + 24 * days)))
Recombined ==
  Big(Value("seconds") + 60 * (Value("minutes")
        + 60 * (Value("hours") + 24 * Value("days"))),
      Value("ms"))

\* C14 (as claimed): ms, seconds, minutes and hours lie in [0, modulus),
\* days is unbounded, and the components recombine to the input, also for
\* an input of 31 days or more.
C14_ComponentsRecombine ==
  Parsed =>
    /\ \A i \in 1..4 : Value(units[i].label) \in 0..(units[i].mod - 1)
    /\ Value("days") >= 0
    /\ Recombined = fmt.ms

--------------------------------------------------------------------------
(* C15, under SpecFmt *)

\* each label with its trailing character stripped
Singular == [ms |-> "m", seconds |-> "second", minutes |-> "minute",
             hours |-> "hour", days |-> "day"]

\* how a unit of the duration object under test is to appear
Piece(label) ==
  ToString(Value(label)) \o " " \o
    (IF Value(label) = 1 THEN Singular[label] ELSE label)

RECURSIVE Pieces(_)
Pieces(labels) ==
  IF Len(labels) = 0 THEN <<>>
  ELSE (IF Value(Head(labels)) = 0 THEN <<>> ELSE <<Piece(Head(labels))>>)
       \o Pieces(Tail(labels))

\* C15: in the rendered duration a unit of value 1 appears with its label
\* stripped of the trailing character, a unit of any other non-zero value
\* with its label unchanged, and a unit of value 0 does not appear.
C15_Pluralization ==
  RenderedOnce =>
    fmt.out[1] =
      Join(Pieces(<<"days", "hours", "minutes", "seconds", "ms">>), ", ")

C15_Witness ==
  /\ RenderedOnce
  /\ fmt.ms = FromParts(1, 23, 1, 2, 1)
  /\ fmt.out[1] = "1 day, 23 hours, 1 minute, 2 seconds, 1 m"

--------------------------------------------------------------------------
(* C16 *)

\* C16: a step that handles an error event or runs a request's completion
\* handler leaves startTime and the configuration as they are; whenever
\* either changes, the step is an init call.
C16_OnlyInitChangesState ==
  [][ /\ (events' # events \/ xhrs' # xhrs) =>
           (config' = config /\ startTime' = startTime)
      /\ (config' # config \/ startTime' # startTime) =>
           initCount' = initCount + 1 ]_vars

\* an event was handled at a later clock reading than the init before it,
\* its request completed and a callback ran, and the configuration and
\* startTime are still those of that init
C16_Witness ==
  \E i \in Completed :
    /\ xhrs[i].called # <<>>
    /\ events[xhrs[i].event].at > events[xhrs[i].event].epochStart
    /\ config = events[xhrs[i].event].config
    /\ startTime = Num(events[xhrs[i].event].epochStart)

--------------------------------------------------------------------------
(* C17 *)

\* the transport can still signal a state change of request i
CanSignal(i) ==
  ENABLED (\/ \E st \in Statuses : HeadersReceived(i, st)
           \/ Done(i)
           \/ NetworkError(i))

\* a callback applies to the completed request i in the configuration of
\* its completion
Applicable(i) ==
  \/ xhrs[i].status = 200 /\ Truthy(DoneCfg(i), "successCallback")
  \/ Truthy(DoneCfg(i), "errorCallback")

\* the handler call returned with the request sent and no callback run
ReturnedBeforeCallbacks ==
  \A n \in DOMAIN events :
    \A c \in DOMAIN Calls(n) :
      Calls(n)[c].sent # <<>> =>
        /\ Calls(n)[c].sent[1].readyState = 1
        /\ Calls(n)[c].sent[1].called = <<>>

\* C17 (as claimed): the handler call returns before any callback of its
\* request runs; a callback runs only once the transport has signalled
\* completion, and once it has, the callback has run.
C17_CallbackAtEveryCompletion ==
  /\ ReturnedBeforeCallbacks
  /\ \A i \in DOMAIN xhrs :
       /\ xhrs[i].called # <<>> => xhrs[i].readyState = 4
       /\ xhrs[i].readyState = 4 => Len(xhrs[i].called) = 1

\* C17 (amended): the handler call returns before any callback of its
\* request runs; while the request is not complete no callback has run and
\* the transport can still signal; once the transport has signalled
\* completion, one callback has run if the configuration then in force
\* holds an applicable one, and none otherwise.
C17_CallbackOnlyAtCompletion ==
  /\ ReturnedBeforeCallbacks
  /\ \A i \in DOMAIN xhrs :
       /\ xhrs[i].readyState < 4 => (xhrs[i].called = <<>> /\ CanSignal(i))
       /\ xhrs[i].readyState = 4 =>
            Len(xhrs[i].called) = (IF Applicable(i) THEN 1 ELSE 0)

C17_Witness ==
  \E i, j \in DOMAIN xhrs :
    /\ xhrs[i].readyState = 4 /\ Len(xhrs[i].called) = 1
    /\ xhrs[j].readyState = 2 /\ xhrs[j].status = 200 /\ xhrs[j].called = <<>>

--------------------------------------------------------------------------
(* C18 *)

\* the callbacks a remoteLogging object holds
CallbacksOf(rl) ==
  {rl[k] : k \in {"successCallback", "errorCallback"} \cap DOMAIN rl}
    \ {Null, Undefined, ""}

\* the remoteLogging object in force when request i was issued
IssueCfg(i) == events[xhrs[i].event].config.remoteLogging

\* C18: every callback run for a completed request is one the configuration
\* held at completion time, whatever it held when the request was issued;
\* when the configuration at completion time holds no callback, none runs.
C18_CallbacksOfCompletionTime ==
  \A i \in Completed :
    /\ \A j \in DOMAIN xhrs[i].called : xhrs[i].called[j] \in CallbacksOf(DoneCfg(i))
    /\ CallbacksOf(DoneCfg(i)) = {} => xhrs[i].called = <<>>

\* issued with callbacks configured, completed after an init that gave
\* none: no callback ran
C18_Witness ==
  \E i \in Completed :
    /\ CallbacksOf(IssueCfg(i)) = {"onSuccess", "onError"}
    /\ CallbacksOf(DoneCfg(i)) = {}
    /\ xhrs[i].called = <<>>

--------------------------------------------------------------------------
(* C19 *)

\* C19: the console report of an event shows the raw stack, never the
\* stringified array the remote sink writes into the record; and when
\* detailedErrors and enable are both true and no url is configured, the
\* call that raises the configuration error has written its console report.
C19_ConsoleBeforeRemote ==
  \A n \in DOMAIN events :
    \A c \in DOMAIN Calls(n) :
      /\ Calls(n)[c].console # <<>> =>
           Calls(n)[c].console[1].stackTrace = Str(RawStack(n))
      /\ (Calls(n)[c].parsed /\ DetailedErrorsAt(n) /\ EnableAt(n) /\ ~UrlAt(n)) =>
           /\ Calls(n)[c].thrown = ConfigError
           /\ Len(Calls(n)[c].console) = 1

C19_Witness ==
  \E n \in DOMAIN events :
    /\ Len(Calls(n)) = 1
    /\ DetailedErrorsAt(n) /\ EnableAt(n) /\ ~UrlAt(n)
    /\ Calls(n)[1].thrown = ConfigError
    /\ Len(Calls(n)[1].console) = 1
    /\ ~NoNewline(RawStack(n))
    /\ Calls(n)[1].console[1].stackTrace = Str(RawStack(n))

--------------------------------------------------------------------------
(* C20, under SpecFmt *)

\* C20 (as claimed): every toString call on the same duration object
\* returns the same string, the units ordered from days down to ms.
C20_ToStringIdempotent ==
  \A k \in DOMAIN fmt.out :
    /\ fmt.out[k] = fmt.out[1]
    /\ fmt.out[k] = ListedLargestFirst(fmt.obj[1].duration)

====
